---- MODULE Spec2Model ----
(***************************************************************************)
(* The API gateway's authorize hook and the users service of the           *)
(* repository, as a state machine.  A request slot is authorized, then its *)
(* action handler runs in the steps its awaits and stream callbacks cut it *)
(* into.  The document store, the upload directory, the action cache and   *)
(* the clock are shared by the slots.                                      *)
(***************************************************************************)
EXTENDS Integers, Sequences, FiniteSets, TLC

\* ---------------------------------------------------------------- bounds
MaxUsers == 2        \* documents the store may hold
MaxTicks == 2        \* clock advances explored
MaxRequests == 2     \* requests received in one behaviour
ExpiryRequests == 3  \* requests received in one behaviour of SpecExpiry

Procs == {1, 2}      \* request slots served concurrently by the event loop

\* ------------------------------------------------------ program constants
JWT_SECRET == "jwt-health"
CacheTtlSeconds == 3600
TokenDays == 60
SaltRounds == 10
TokenLife == TokenDays * 86400

\* ------------------------------------------------------------ input sets
Phones == {"0912345678", "0387654321"}
Plain == {"secret1", "secret2"}
FileNames == {"avatar.png"}

Null == "null"
NoUser == [none |-> "user"]
NoToken == [none |-> "token"]
NoBody == [none |-> "body"]
NoResp == [none |-> "resp"]
NoReq == [none |-> "req"]
NoLocal == [none |-> "local"]

\* ------------------------------------------------------- identifier values
\* An _id is an ObjectID in the store, a hex string inside a token or a URL,
\* and ctx.params of "DELETE /:id" is the object {id: <hex string>}.
ObjectID(i) == [oid |-> i]
HexString(i) == [str |-> i]
ParamsObject(s) == [id |-> s]

stringToObjectID(v) == IF DOMAIN v = {"str"} THEN ObjectID(v.str) ELSE v

\* --------------------------------------------------------- password hasher
\* bcrypt digest: version and cost prefix, then the salt, then the hashed text.
\* The random salt is one fixed value here; compare re-hashes with the
\* digest's own salt, so it accepts exactly the text the digest was made from.
hashSync(p, rounds) == "$2a$" \o ToString(rounds) \o "$" \o "salt" \o "." \o p

compare(p, h) == h = hashSync(p, SaltRounds)

\* ------------------------------------------------------------------ tokens
generateJWT(user, t) ==
    [id |-> HexString(user._id.oid), phoneNumber |-> user.phoneNumber,
     exp |-> t + TokenLife, key |-> JWT_SECRET]

\* jwt.verify: the signature is made with the secret and the expiry is ahead.
jwtVerify(tok, t) == tok.key = JWT_SECRET /\ t < tok.exp

Tampered(tok) == [tok EXCEPT !.key = "forged"]

\* A correctly signed token of an account that is no longer in the store.
OrphanToken ==
    [id |-> HexString(0), phoneNumber |-> "0912345678", exp |-> TokenLife,
     key |-> JWT_SECRET]

VARIABLES users, nextId, files, cache, meCache, now, ticks, nreq, issued,
          pc, req, meta, local, resp

vars == <<users, nextId, files, cache, meCache, now, ticks, nreq, issued,
          pc, req, meta, local, resp>>

\* ------------------------------------------------------------------- store
findOne(phone) ==
    IF \E d \in users : d.phoneNumber = phone
    THEN CHOOSE d \in users : d.phoneNumber = phone
                              /\ \A e \in users : e.phoneNumber = phone
                                                  => d._id.oid <= e._id.oid
    ELSE NoUser

findById(q) ==
    IF \E d \in users : d._id = stringToObjectID(q)
    THEN CHOOSE d \in users : d._id = stringToObjectID(q)
    ELSE NoUser

getById(id) == findById(id)

\* updateById with {$set: fields}: only the supplied fields change.
SetFields(d, fields) ==
    [f \in DOMAIN d |-> IF f \in DOMAIN fields THEN fields[f] ELSE d[f]]

updateById(id, fields) ==
    {IF d._id = stringToObjectID(id) THEN SetFields(d, fields) ELSE d : d \in users}

removeById(id) == {d \in users : d._id # stringToObjectID(id)}

\* ------------------------------------------------------ outbound payloads
fields == {"_id", "phoneNumber", "password", "fullname", "birthday", "gender",
           "inviteCode", "city", "address"}

transformDocuments(doc) ==
    IF doc = NoUser THEN NoUser
    ELSE [f \in (DOMAIN doc) \cap fields |-> doc[f]]

transformEntity(user, withToken, token, t) ==
    IF user # NoUser /\ withToken
    THEN [f \in (DOMAIN user) \cup {"token"} |->
            IF f = "token"
            THEN (IF token # NoToken THEN token ELSE generateJWT(user, t))
            ELSE user[f]]
    ELSE user

Response(code, err, body) == [code |-> code, err |-> err, body |-> body]

\* ------------------------------------------------------------ action cache
\* The cacher keeps "users.resolveToken" results by token for CacheTtlSeconds
\* and "users.me" results by the caller's id; a result of null is never kept.
CacheHit(tok) == \E e \in cache : e.key = tok /\ ~(e.expire < now)

CacheGet(tok) == (CHOOSE e \in cache : e.key = tok /\ ~(e.expire < now)).val

CacheSet(tok, val) ==
    {e \in cache : e.key # tok}
        \cup {[key |-> tok, val |-> val, expire |-> now + CacheTtlSeconds]}

MeCacheHit(id) == \E e \in meCache : e.key = id

MeCacheGet(id) == (CHOOSE e \in meCache : e.key = id).val

\* ------------------------------------------------------------- the gateway
AuthPolicy(action) ==
    IF action \in {"me", "update", "delete", "uploadImage", "getImage"}
    THEN "required" ELSE "optional"

\* header: the words of the Authorization header split on " ", <<>> when absent.
ExtractToken(header) ==
    IF Len(header) > 0 /\ header[1] \in {"Token", "Bearer"} /\ Len(header) > 1
    THEN header[2] ELSE NoToken

\* users.resolveToken's handler: what it returns, or the error it throws.
\* up: whether the document store answers this call.
resolveTokenError(tok, up) ==
    IF ~jwtVerify(tok, now) THEN "credential"
    ELSE IF ~up THEN "outage"
    ELSE "none"

resolveTokenHandler(tok, up) ==
    IF resolveTokenError(tok, up) = "none" THEN getById(tok.id) ELSE NoUser

\* ctx.call("users.resolveToken") inside authorize's try/catch: the cached
\* result when there is one, else the handler's; every error is caught.
CallResolveToken(tok, up) ==
    IF CacheHit(tok) THEN CacheGet(tok) ELSE resolveTokenHandler(tok, up)

ResolveUser(token, up) ==
    IF token = NoToken THEN NoUser ELSE CallResolveToken(token, up)

ResolveErr(token, up) ==
    IF token = NoToken \/ CacheHit(token) THEN "none"
    ELSE resolveTokenError(token, up)

pick(user) == [f \in (DOMAIN user) \cap fields |-> user[f]]

MetaOf(token, user, err) ==
    IF user # NoUser
    THEN [user |-> pick(user), token |-> token, err |-> err]
    ELSE [user |-> NoUser, token |-> NoToken, err |-> err]

NoMeta == [user |-> NoUser, token |-> NoToken, err |-> "none"]

\* The policy test with the policy's name misspelt: it never matches.
RejectsMisspelt(auth, user) == auth = "require" /\ user = NoUser

Rejects(auth, user) == auth = "required" /\ user = NoUser

\* ------------------------------------------------------------------ inputs
TokenPool == issued \cup {Tampered(t) : t \in issued} \cup {OrphanToken}

Headers ==
    {<<>>, <<"Bearer">>}
        \cup {<<"Bearer", t>> : t \in TokenPool}
        \cup {<<s, t>> : s \in {"Token", "Basic"}, t \in issued}

ParamsOf(action) ==
    CASE action = "create" ->
           {[phoneNumber |-> ph, password |-> "secret1", fullname |-> "An"] :
                ph \in Phones}
      [] action = "login" ->
           {[phoneNumber |-> ph, password |-> pw] : ph \in Phones, pw \in Plain}
      [] action = "update" -> {[password |-> "secret2"], [fullname |-> "Binh"]}
      [] action = "delete" -> {ParamsObject(HexString(i)) : i \in 1..MaxUsers}
      [] action = "uploadImage" -> {[filename |-> f] : f \in FileNames \cup {Null}}
      [] OTHER -> {NoReq}

Actions == {"create", "login", "me", "update", "delete", "uploadImage", "getImage"}

Creating == {q \in Procs : pc[q] \in {"create", "create_insert"}}

\* A settled handler's response is written before any other callback runs.
NoneDone == \A q \in Procs : pc[q] # "done"

Init ==
    /\ users = {}
    /\ nextId = 1
    /\ files = {}
    /\ cache = {}
    /\ meCache = {}
    /\ now = 0
    /\ ticks = 0
    /\ nreq = 0
    /\ issued = {}
    /\ pc = [p \in Procs |-> "idle"]
    /\ req = [p \in Procs |-> NoReq]
    /\ meta = [p \in Procs |-> NoMeta]
    /\ local = [p \in Procs |-> NoLocal]
    /\ resp = [p \in Procs |-> NoResp]

\* The gateway receives a request and runs authorize before dispatching it.
\* max: the number of requests the behaviour may receive.
Authorize(p, max) ==
    /\ pc[p] = "idle"
    /\ NoneDone
    /\ \A q \in Procs : q < p => pc[q] # "idle"
    /\ nreq < max
    /\ \E action \in Actions, header \in Headers, up \in BOOLEAN :
         \E params \in ParamsOf(action) :
           LET token == ExtractToken(header)
               user == ResolveUser(token, up)
               err == ResolveErr(token, up)
               auth == AuthPolicy(action)
           IN /\ action = "create" => nextId + Cardinality(Creating) <= MaxUsers
              /\ req' = [req EXCEPT ![p] =
                           [action |-> action, auth |-> auth, params |-> params]]
              /\ meta' = [meta EXCEPT ![p] = MetaOf(token, user, err)]
              /\ cache' = IF token # NoToken /\ ~CacheHit(token) /\ user # NoUser
                          THEN CacheSet(token, user) ELSE cache
              /\ IF Rejects(auth, user)
                 THEN /\ resp' = [resp EXCEPT ![p] =
                                    Response(401, "UnAuthorizedError", NoBody)]
                      /\ pc' = [pc EXCEPT ![p] = "done"]
                 ELSE /\ resp' = resp
                      /\ pc' = [pc EXCEPT ![p] = action]
    /\ nreq' = nreq + 1
    /\ UNCHANGED <<users, nextId, files, meCache, now, ticks, issued, local>>

\* --------------------------------------------------------------- handlers
Finish(p, r) ==
    /\ resp' = [resp EXCEPT ![p] = r]
    /\ pc' = [pc EXCEPT ![p] = "done"]

StoreError == Response(500, "MongoError", NoBody)
TypeError == Response(500, "TypeError", NoBody)

\* entityChanged: the service's cached action results are all dropped.
EntityChanged ==
    /\ cache' = {}
    /\ meCache' = {}

\* create, up to its await of adapter.findOne.
CreateFind(p) ==
    /\ pc[p] = "create"
    /\ NoneDone
    /\ \E up \in BOOLEAN :
         IF ~up THEN Finish(p, StoreError)
         ELSE IF findOne(req[p].params.phoneNumber) # NoUser
         THEN Finish(p, Response(422, "phoneNumber", NoBody))
         ELSE /\ pc' = [pc EXCEPT ![p] = "create_insert"]
              /\ resp' = resp
    /\ UNCHANGED <<users, nextId, files, cache, meCache, now, ticks, nreq, issued,
                   req, meta, local>>

NewDoc(entity, id) ==
    [_id |-> ObjectID(id), phoneNumber |-> entity.phoneNumber,
     password |-> hashSync(entity.password, SaltRounds),
     fullname |-> entity.fullname, image |-> Null]

\* create, from the hashing to the return, once findOne found nothing.
CreateInsert(p) ==
    /\ pc[p] = "create_insert"
    /\ NoneDone
    /\ \E up \in BOOLEAN :
         IF ~up
         THEN /\ Finish(p, StoreError)
              /\ UNCHANGED <<users, nextId, cache, meCache>>
         ELSE LET doc == NewDoc(req[p].params, nextId)
                  user == transformEntity(doc, TRUE, meta[p].token, now)
              IN /\ users' = users \cup {doc}
                 /\ nextId' = nextId + 1
                 /\ EntityChanged
                 /\ Finish(p, Response(200, "", user))
    /\ UNCHANGED <<files, now, ticks, nreq, issued, req, meta, local>>

Login(p) ==
    /\ pc[p] = "login"
    /\ NoneDone
    /\ \E up \in BOOLEAN :
         LET user == findOne(req[p].params.phoneNumber)
         IN IF ~up THEN Finish(p, StoreError)
            ELSE IF user = NoUser
            THEN Finish(p, Response(422, "phoneNumber", NoBody))
            ELSE IF ~compare(req[p].params.password, user.password)
            THEN Finish(p, Response(422, "password", NoBody))
            ELSE Finish(p, Response(200, "",
                     transformEntity(transformDocuments(user), TRUE,
                                     meta[p].token, now)))
    /\ UNCHANGED <<users, nextId, files, cache, meCache, now, ticks, nreq, issued,
                   req, meta, local>>

\* me: answered from the cache under the caller's id, else by the handler.
Me(p) ==
    /\ pc[p] = "me"
    /\ NoneDone
    /\ IF meta[p].user # NoUser /\ MeCacheHit(meta[p].user._id)
       THEN /\ Finish(p, Response(200, "", MeCacheGet(meta[p].user._id)))
            /\ meCache' = meCache
       ELSE \E up \in BOOLEAN :
              IF meta[p].user = NoUser
              THEN Finish(p, TypeError) /\ meCache' = meCache
              ELSE IF ~up
              THEN Finish(p, StoreError) /\ meCache' = meCache
              ELSE LET user == getById(meta[p].user._id)
                       json == transformEntity(transformDocuments(user), TRUE,
                                               meta[p].token, now)
                   IN IF user = NoUser
                      THEN /\ Finish(p, Response(404, "User not found!", NoBody))
                           /\ meCache' = meCache
                      ELSE /\ Finish(p, Response(200, "", json))
                           /\ meCache' = {e \in meCache : e.key # user._id}
                                 \cup {[key |-> user._id, val |-> json]}
    /\ UNCHANGED <<users, nextId, files, cache, now, ticks, nreq, issued, req,
                   meta, local>>

Update(p) ==
    /\ pc[p] = "update"
    /\ NoneDone
    /\ \E up \in BOOLEAN :
         IF meta[p].user = NoUser
         THEN Finish(p, TypeError) /\ UNCHANGED <<users, cache, meCache>>
         ELSE IF ~up
         THEN Finish(p, StoreError) /\ UNCHANGED <<users, cache, meCache>>
         ELSE LET after == updateById(meta[p].user._id, req[p].params)
                  found == \E d \in after : d._id = meta[p].user._id
                  doc == IF found
                         THEN CHOOSE d \in after : d._id = meta[p].user._id
                         ELSE NoUser
                  json == transformEntity(transformDocuments(doc), TRUE,
                                          meta[p].token, now)
              IN /\ users' = after
                 /\ EntityChanged
                 /\ Finish(p, Response(200, "", json))
    /\ UNCHANGED <<nextId, files, now, ticks, nreq, issued, req, meta, local>>

\* delete: `id` is ctx.params itself.
Delete(p) ==
    /\ pc[p] = "delete"
    /\ NoneDone
    /\ \E up \in BOOLEAN :
         LET id == req[p].params
             user == getById(id)
         IN IF ~up
            THEN Finish(p, StoreError) /\ UNCHANGED <<users, cache, meCache>>
            ELSE IF user = NoUser
            THEN /\ Finish(p, Response(404, "User not found!", NoBody))
                 /\ UNCHANGED <<users, cache, meCache>>
            ELSE /\ users' = removeById(id)
                 /\ EntityChanged
                 /\ Finish(p, Response(200, "", user))
    /\ UNCHANGED <<nextId, files, now, ticks, nreq, issued, req, meta, local>>

GetImage(p) ==
    /\ pc[p] = "getImage"
    /\ NoneDone
    /\ \E up \in BOOLEAN :
         IF meta[p].user = NoUser THEN Finish(p, TypeError)
         ELSE IF ~up THEN Finish(p, StoreError)
         ELSE LET user == getById(meta[p].user._id)
              IN IF user = NoUser
                 THEN Finish(p, Response(404, "User not found!", NoBody))
                 ELSE IF user.image = Null THEN Finish(p, TypeError)
                 ELSE Finish(p, Response(200, "image/png", [stream |-> user.image]))
    /\ UNCHANGED <<users, nextId, files, cache, meCache, now, ticks, nreq, issued,
                   req, meta, local>>

\* ------------------------------------------------------------ avatar upload
randomName(t) == "unnamed_" \o ToString(t) \o ".png"

CallerImage(p) ==
    IF meta[p].user # NoUser /\ getById(meta[p].user._id) # NoUser
    THEN getById(meta[p].user._id).image ELSE Null

\* uploadImage's handler: the write stream is opened, the three listeners are
\* registered, the request stream is piped, and the handler returns the stream.
UploadStart(p) ==
    /\ pc[p] = "uploadImage"
    /\ NoneDone
    /\ LET filePath == IF req[p].params.filename # Null
                       THEN req[p].params.filename ELSE randomName(now)
       IN /\ files' = files \cup {filePath}
          /\ local' = [local EXCEPT ![p] =
                         [filePath |-> filePath, imageBefore |-> CallerImage(p),
                          written |-> FALSE, errored |-> FALSE, updated |-> FALSE]]
          /\ resp' = [resp EXCEPT ![p] = Response(200, "", [stream |-> filePath])]
    /\ pc' = [pc EXCEPT ![p] = "upload_streaming"]
    /\ UNCHANGED <<users, nextId, cache, meCache, now, ticks, nreq, issued, req, meta>>

\* The request stream ends: the last chunk is flushed and the file is closed.
UploadEnd(p) ==
    /\ pc[p] = "upload_streaming"
    /\ NoneDone
    /\ local' = [local EXCEPT ![p].written = TRUE]
    /\ pc' = [pc EXCEPT ![p] = "upload_close"]
    /\ UNCHANGED <<users, nextId, files, cache, meCache, now, ticks, nreq, issued,
                   req, meta, resp>>

\* ctx.params emits "error": the listener destroys the write stream with it.
UploadSourceError(p) ==
    /\ pc[p] = "upload_streaming"
    /\ NoneDone
    /\ local' = [local EXCEPT ![p].errored = TRUE]
    /\ pc' = [pc EXCEPT ![p] = "upload_error"]
    /\ UNCHANGED <<users, nextId, files, cache, meCache, now, ticks, nreq, issued,
                   req, meta, resp>>

\* The write stream's "error" listener unlinks the file.  Whether a destroyed
\* fs stream then emits "close" depends on the runtime (engines: node >= 12).
UploadFileError(p) ==
    /\ pc[p] = "upload_error"
    /\ NoneDone
    /\ files' = files \ {local[p].filePath}
    /\ \E emitClose \in BOOLEAN :
         pc' = [pc EXCEPT ![p] = IF emitClose THEN "upload_close" ELSE "done"]
    /\ UNCHANGED <<users, nextId, cache, meCache, now, ticks, nreq, issued, req,
                   meta, local, resp>>

\* The write stream's "close" listener stores the path in the caller's record.
UploadClose(p) ==
    /\ pc[p] = "upload_close"
    /\ NoneDone
    /\ \E up \in BOOLEAN :
         IF meta[p].user # NoUser /\ up
         THEN /\ users' = updateById(meta[p].user._id, [image |-> local[p].filePath])
              /\ EntityChanged
              /\ local' = [local EXCEPT ![p].updated = TRUE]
         ELSE UNCHANGED <<users, cache, meCache, local>>
    /\ pc' = [pc EXCEPT ![p] = "done"]
    /\ UNCHANGED <<nextId, files, now, ticks, nreq, issued, req, meta, resp>>

\* ---------------------------------------------------------- environment
\* The client takes the response; a token in it is one it may present later.
Deliver(p) ==
    /\ pc[p] = "done"
    /\ issued' = IF "token" \in DOMAIN resp[p].body
                 THEN issued \cup {resp[p].body.token} ELSE issued
    /\ pc' = [pc EXCEPT ![p] = "idle"]
    /\ req' = [req EXCEPT ![p] = NoReq]
    /\ meta' = [meta EXCEPT ![p] = NoMeta]
    /\ local' = [local EXCEPT ![p] = NoLocal]
    /\ resp' = [resp EXCEPT ![p] = NoResp]
    /\ UNCHANGED <<users, nextId, files, cache, meCache, now, ticks, nreq>>

\* The clock is read at these instants: half an hour before a token issued at
\* time 0 expires, at its expiry, and each hour after that.
TickStep(k) ==
    IF k = 1 THEN TokenLife - 1800 ELSE IF k = 2 THEN 1800 ELSE CacheTtlSeconds

Tick ==
    /\ ticks < MaxTicks
    /\ \A p \in Procs : pc[p] = "idle"
    /\ now' = now + TickStep(ticks + 1)
    /\ ticks' = ticks + 1
    /\ UNCHANGED <<users, nextId, files, cache, meCache, nreq, issued, pc, req,
                   meta, local, resp>>

Next ==
    \/ \E p \in Procs : Authorize(p, MaxRequests)
    \/ \E p \in Procs : CreateFind(p)
    \/ \E p \in Procs : CreateInsert(p)
    \/ \E p \in Procs : Login(p)
    \/ \E p \in Procs : Me(p)
    \/ \E p \in Procs : Update(p)
    \/ \E p \in Procs : Delete(p)
    \/ \E p \in Procs : GetImage(p)
    \/ \E p \in Procs : UploadStart(p)
    \/ \E p \in Procs : UploadEnd(p)
    \/ \E p \in Procs : UploadSourceError(p)
    \/ \E p \in Procs : UploadFileError(p)
    \/ \E p \in Procs : UploadClose(p)
    \/ \E p \in Procs : Deliver(p)
    \/ Tick

Spec == Init /\ [][Next]_vars

\* The same system, receiving one more request: a token is issued, resolved
\* shortly before its expiry, and presented again after it.
NextExpiry ==
    \/ \E p \in Procs : Authorize(p, ExpiryRequests)
    \/ \E p \in Procs : CreateFind(p)
    \/ \E p \in Procs : CreateInsert(p)
    \/ \E p \in Procs : Login(p)
    \/ \E p \in Procs : Me(p)
    \/ \E p \in Procs : Update(p)
    \/ \E p \in Procs : Delete(p)
    \/ \E p \in Procs : GetImage(p)
    \/ \E p \in Procs : UploadStart(p)
    \/ \E p \in Procs : UploadEnd(p)
    \/ \E p \in Procs : UploadSourceError(p)
    \/ \E p \in Procs : UploadFileError(p)
    \/ \E p \in Procs : UploadClose(p)
    \/ \E p \in Procs : Deliver(p)
    \/ Tick

SpecExpiry == Init /\ [][NextExpiry]_vars

\* ================================================================== claims
IsAction(p, a) == req[p] # NoReq /\ req[p].action = a

Responded(p) == resp[p] # NoResp

\* h is what the password hasher produces for some client password.
IsDigest(h) == \E p \in Plain : h = hashSync(p, SaltRounds)

\* The request in slot p is to a `required` action and authorize resolved no user.
Unauthenticated(p) ==
    req[p] # NoReq /\ req[p].auth = "required" /\ meta[p].user = NoUser

\* C1: a request to a `required` action for which no principal was resolved is
\* answered 401 by authorize and never reaches a handler position; the step
\* that receives it leaves the user store and the upload directory unchanged.
C1_RequiredWithoutPrincipalIsRejected ==
    [][\A p \in Procs :
         /\ Unauthenticated(p)' => (pc'[p] = "done" /\ resp'[p].code = 401)
         /\ (pc[p] = "idle" /\ Unauthenticated(p)')
                => (users' = users /\ files' = files)]_vars

\* C1 witness: with an account stored, a request to a `required` action whose
\* token failed verification has been answered 401.
C1_Witness ==
    \E p \in Procs :
        /\ Unauthenticated(p)
        /\ meta[p].err = "credential"
        /\ resp[p].code = 401
        /\ users # {}

\* C2: every stored password is a digest of the password hasher and is not a
\* plaintext password a client supplied.
C2_StoredPasswordsAreDigests ==
    \A d \in users : IsDigest(d.password) /\ d.password \notin Plain

\* C3: no two stored user records have the same phoneNumber.
C3_PhoneNumbersUnique ==
    \A d \in users : \A e \in users : d.phoneNumber = e.phoneNumber => d = e

\* C4: once every callback of an upload whose request stream emitted an error
\* has run, the upload's file is absent and the caller's image is the one it
\* had before the upload started.
C4_FailedUploadLeavesNoTrace ==
    \A p \in Procs :
        (IsAction(p, "uploadImage") /\ pc[p] = "done" /\ local[p] # NoLocal
            /\ local[p].errored)
        => (local[p].filePath \notin files
            /\ CallerImage(p) = local[p].imageBefore)

\* C5: an upload's handler has returned its successful result only after the
\* file was written completely and the caller's image was updated.
C5_UploadRespondsAfterUpdate ==
    \A p \in Procs :
        (IsAction(p, "uploadImage") /\ Responded(p) /\ resp[p].code = 200)
        => (local[p].written /\ local[p].updated)

\* C6: authorize attaches a user to a request only if the presented token's
\* expiry is still ahead of the clock.
C6_ExpiredTokenNeverResolves ==
    \A p \in Procs : meta[p].user # NoUser => now < meta[p].token.exp

\* C7: when resolving the presented token failed because the store was
\* unreachable, the request ends with that error and nothing else.
C7_OutagePropagates ==
    \A p \in Procs :
        meta[p].err = "outage" => (pc[p] = "done" /\ resp[p] = StoreError)

\* C8: no response of register, login, me or update carries a password field.
C8_NoPasswordInResponses ==
    \A p \in Procs :
        (Responded(p) /\ req[p].action \in {"create", "login", "me", "update"})
        => "password" \notin DOMAIN resp[p].body

Stored(id) == \E d \in users : d._id = ObjectID(id)

\* C9: a delete that the store answered responds 404 exactly when no user has
\* the identifier of the URL, and otherwise the user with it is removed.
C9_DeleteRemovesExistingUser ==
    [][\A p \in Procs :
         (pc[p] = "delete" /\ pc'[p] = "done" /\ resp'[p] # StoreError)
         => /\ resp'[p].code = 404 <=> ~Stored(req[p].params.id.str)
            /\ ~Stored(req[p].params.id.str)']_vars

\* C10: the token in a successful register or login response encodes the
\* identifier of the user in that response.
C10_TokenIsTheReturnedUsers ==
    \A p \in Procs :
        (Responded(p) /\ req[p].action \in {"create", "login"}
            /\ resp[p].code = 200)
        => resp[p].body.token.id = HexString(resp[p].body._id.oid)
====
